---- MODULE Spec2Model ----
(***************************************************************************)
(* Model of go-ico: the ICO container decoder (ico.go) and the bitmap      *)
(* pixel decoder it relies on (internal/bmp/decode.go).                    *)
(*                                                                         *)
(* Byte streams are sequences of 0..255.  A Go call returns one of         *)
(*   [kind |-> "ok", ...]     a value and a nil error,                     *)
(*   [kind |-> "err", err]    a non-nil error value,                       *)
(*   [kind |-> "panic", why]  a run-time panic (index / slice out of range)*)
(* Integers of the model are mathematical; the inputs are bounded so that  *)
(* no 32-bit field wraps.                                                  *)
(***************************************************************************)
EXTENDS Integers, Sequences, FiniteSets, TLC

VARIABLES api, input, stream, pc, hdr, rpos, ds, buf, bufCap, idx, imgs, last, res

vars == <<api, input, stream, pc, hdr, rpos, ds, buf, bufCap, idx, imgs, last, res>>

(***************************************************************************)
(* Program constants.                                                      *)
(***************************************************************************)
headerSize == 6
directorySize == 16
bmpHeaderSize == 14
bmpInfoHeaderSize == 40
fileHeaderSize == 14

(***************************************************************************)
(* Go error values, by the text or the sentinel that identifies them.      *)
(***************************************************************************)
ErrEOF == "io.EOF"
ErrUnexpectedEOF == "io.ErrUnexpectedEOF"
ErrImageType == "ico: image type should be 1"
ErrCount == "ico: invalid the number of images"
ErrSignature == "bmp: file signature should be 'BM'"
ErrWidth == "bmp: width should be greater than zero"
ErrHeight == "bmp: height should be non-zero"
ErrDibSize == "bmp: unsupported DIB header size"
ErrCompression == "bmp: supported compression method is only 0"
ErrBpp == "bmp: unsupported bpp"
ErrNotImplemented == "bmp: the bpp decode fucntion isn't implemented"

ErrV(e) == [kind |-> "err", err |-> e]
PanicV(w) == [kind |-> "panic", why |-> w]

(***************************************************************************)
(* encoding/binary, little endian.  o is a 0-based offset into s.          *)
(***************************************************************************)
Pow2(n) == 2 ^ n

U16(s, o) == s[o + 1] + 256 * s[o + 2]

I16(s, o) == IF U16(s, o) >= 32768 THEN U16(s, o) - 65536 ELSE U16(s, o)

U32(s, o) == s[o + 1] + 256 * s[o + 2] + 65536 * s[o + 3] + 16777216 * s[o + 4]

I32(s, o) ==
  IF s[o + 4] >= 128
    THEN s[o + 1] + 256 * s[o + 2] + 65536 * s[o + 3] + 16777216 * (s[o + 4] - 256)
    ELSE U32(s, o)

LE16(v) == << v % 256, (v \div 256) % 256 >>

LE32(v) == << v % 256, (v \div 256) % 256, (v \div 65536) % 256, (v \div 16777216) % 256 >>

\* Go's integer division truncates toward zero.
GoDiv(a, b) == IF a >= 0 THEN a \div b ELSE -((-a) \div b)

Zeros(n) == [k \in 1..n |-> 0]

\* io.ReadFull(r, p) with len(p) = n on a reader holding s at position pos:
\* all n bytes, or io.EOF (nothing left) / io.ErrUnexpectedEOF (some left),
\* the reader being drained in both failing cases.
ReadFull(s, pos, n) ==
  IF Len(s) - pos >= n
    THEN [kind |-> "ok", data |-> SubSeq(s, pos + 1, pos + n), pos |-> pos + n]
    ELSE [kind |-> "err", err |-> IF Len(s) - pos <= 0 THEN ErrEOF ELSE ErrUnexpectedEOF,
          pos |-> Len(s)]

(***************************************************************************)
(* package bmp                                                             *)
(***************************************************************************)
\* readFileHeader, after binary.Read of the 14 bytes: the signature check
checkSignature(r) ==
  IF r.kind = "err" THEN ErrV(r.err)
  ELSE IF << r.data[1], r.data[2] >> # << 66, 77 >> THEN ErrV(ErrSignature)
  ELSE [kind |-> "ok", pos |-> r.pos]

readFileHeader(s) == checkSignature(ReadFull(s, 0, fileHeaderSize))

\* InfoHeader{Size: size, infoHeaderWithoutSize: ihws} from the 4 + 36 bytes
infoHeaderOf(sz, b) ==
  [Size |-> U32(sz, 0), Width |-> I32(b, 0), Height |-> I32(b, 4),
   Planes |-> U16(b, 8), BitCount |-> U16(b, 10), Compression |-> U32(b, 12),
   SizeImage |-> U32(b, 16), XPelsPerMeter |-> I32(b, 20),
   YPelsPerMeter |-> I32(b, 24), ColorUsed |-> U32(b, 28),
   ColorImportant |-> U32(b, 32)]

checkInfoHeader(ih, pos) ==
  IF ih.Width <= 0 THEN ErrV(ErrWidth)
  ELSE IF ih.Height = 0 THEN ErrV(ErrHeight)
  ELSE [kind |-> "ok", ih |-> ih, pos |-> pos]

readInfoHeaderFrom(r1, r2) ==
  IF r1.kind = "err" THEN ErrV(r1.err)
  ELSE IF r2.kind = "err" THEN ErrV(r2.err)
  ELSE checkInfoHeader(infoHeaderOf(r1.data, r2.data), r2.pos)

\* ReadInfoHeader reads the 4-byte size and the 36 bytes that follow it,
\* whatever the size says.
ReadInfoHeader(s, pos) == readInfoHeaderFrom(ReadFull(s, pos, 4), ReadFull(s, pos + 4, 36))

\* colorBGR.RGBA: the reserved byte is dropped and alpha forced to 0xff.
colorBGR_RGBA(c) == << c[3], c[2], c[1], 255 >>

\* uint32(1) << BitCount
ShiftOne32(bc) == IF bc < 32 THEN Pow2(bc) ELSE 0

\* if ih.ColorUsed == 0 { ih.ColorUsed = 1 << ih.BitCount }
colorsUsed(ih) == IF ih.ColorUsed = 0 THEN ShiftOne32(ih.BitCount) ELSE ih.ColorUsed

\* colorTable[i] = clrs[i].RGBA()
colorTable(b) ==
  [k \in 1..(Len(b) \div 4) |-> colorBGR_RGBA(SubSeq(b, 4 * (k - 1) + 1, 4 * k))]

decoderOf(ih, model, pos) ==
  [kind |-> "ok", pos |-> pos,
   d |-> [bpp |-> ih.BitCount, isOpposite |-> ih.Height < 0, Width |-> ih.Width,
          Height |-> IF ih.Height < 0 THEN -ih.Height ELSE ih.Height,
          ColorModel |-> model]]

paletteDecoder(ih, pal) ==
  IF pal.kind = "err" THEN ErrV(pal.err) ELSE decoderOf(ih, colorTable(pal.data), pal.pos)

buildDecoder(s, ih, pos) ==
  IF ih.Size \notin {40, 108, 124} THEN ErrV(ErrDibSize)
  ELSE IF ih.Compression # 0 THEN ErrV(ErrCompression)
  ELSE IF ih.BitCount \in {1, 4, 8}
         THEN paletteDecoder(ih, ReadFull(s, pos, 4 * colorsUsed(ih)))
  ELSE IF ih.BitCount \in {16, 24, 32} THEN decoderOf(ih, << >>, pos)
  ELSE ErrV(ErrBpp)

newDecoderInfo(s, r) == IF r.kind = "err" THEN r ELSE buildDecoder(s, r.ih, r.pos)

newDecoderFrom(s, fh) ==
  IF fh.kind = "err" THEN fh ELSE newDecoderInfo(s, ReadInfoHeader(s, fh.pos))

newDecoder(s) == newDecoderFrom(s, readFileHeader(s))

\* The stored row that lands on image row y: rows are read in file order and
\* written from y0 = h-1 downwards, or from 0 upwards when isOpposite.
StoredRow(d, y) == IF d.isOpposite THEN y ELSE d.Height - 1 - y

\* row data must be an integer multiple of 4 bytes
RowLen(w, bpp) == ((w * bpp + 31) \div 32) * 4

\* row := make([]byte, ...): 24 bpp rounds w*3 up with (w*3+3)&^3, 32 bpp
\* reads straight into the Stride = 4*w bytes of the row of Pix.
rowBytes(w, bpp) ==
  CASE bpp = 24 -> ((w * 3 + 3) \div 4) * 4
    [] bpp = 32 -> 4 * w
    [] OTHER    -> RowLen(w, bpp)

\* for i := 0; i < (w+1)/8; i++ { p[i*8+k] = ... }: columns written, 1 bpp
decode1Written(w) == 8 * ((w + 1) \div 8)

\* for i := 0; i < (w+1)/2; i++ { p[i*2+0], p[i*2+1] = ... }: columns written, 4 bpp
decode4Written(w) == 2 * ((w + 1) \div 2)

\* Number of bytes of a row of Pix the unpack loop of each decoder writes.
written(w, bpp) ==
  CASE bpp = 1 -> decode1Written(w)
    [] bpp = 4 -> decode4Written(w)
    [] bpp = 8 -> w
    [] OTHER   -> 4 * w

\* len of one row of Pix: image.NewPaletted has Stride w, NewRGBA / NewNRGBA 4*w
pixStride(w, bpp) == IF bpp \in {1, 4, 8} THEN w ELSE 4 * w

imageType(bpp) ==
  CASE bpp = 24 -> "RGBA"
    [] bpp = 32 -> "NRGBA"
    [] OTHER    -> "Paletted"

\* p[i*8+k] = (row[i] & (0x80 >> k)) >> (7-k)
unpack1(row, j) == (row[(j \div 8) + 1] \div Pow2(7 - (j % 8))) % 2

\* p[i*2+0] = (row[i] & 0xf0) >> 4; p[i*2+1] = row[i] & 0xf
unpack4(row, j) ==
  IF j % 2 = 0 THEN row[(j \div 2) + 1] \div 16 ELSE row[(j \div 2) + 1] % 16

\* copy(p, row[:w])
unpack8(row, j) == row[j + 1]

\* unpack24 with the alpha byte taken from the row instead of forced to 0xff.
unpack24RowAlpha(row, j) == row[3 * (j \div 4) + (IF j % 4 = 3 THEN 2 ELSE 2 - (j % 4)) + 1]

\* p[i+0], p[i+1], p[i+2], p[i+3] = row[j+2], row[j+1], row[j+0], 0xff
unpack24(row, j) == IF j % 4 = 3 THEN 255 ELSE row[3 * (j \div 4) + (2 - (j % 4)) + 1]

\* p[i], p[i+2] = p[i+2], p[i] on the row read into p
unpack32(row, j) ==
  IF j % 4 = 0 THEN row[j + 3] ELSE IF j % 4 = 2 THEN row[j - 1] ELSE row[j + 1]

unpack(bpp, row, j) ==
  CASE bpp = 1  -> unpack1(row, j)
    [] bpp = 4  -> unpack4(row, j)
    [] bpp = 8  -> unpack8(row, j)
    [] bpp = 24 -> unpack24(row, j)
    [] bpp = 32 -> unpack32(row, j)

\* The image a decoder returns once all its rows are read.
decodedImage(d, s, pos, rowLen, stride) ==
  [type |-> imageType(d.bpp), W |-> d.Width, H |-> d.Height, Stride |-> stride,
   Palette |-> d.ColorModel,
   Pix |-> [k \in 1..(stride * d.Height) |->
              IF (k - 1) % stride < written(d.Width, d.bpp)
                THEN unpack(d.bpp,
                            SubSeq(s, pos + StoredRow(d, (k - 1) \div stride) * rowLen + 1,
                                   pos + (StoredRow(d, (k - 1) \div stride) + 1) * rowLen),
                            (k - 1) % stride)
                ELSE 0]]

\* The row loop of decode1 / decode4 / decode8 / decode24 / decode32: every
\* row is read with io.ReadFull (io.EOF becoming io.ErrUnexpectedEOF) before
\* it is unpacked, and unpacking the first row panics when the loop writes
\* past the len(p) = Stride bytes of the row of Pix.
rowLoop(d, s, pos, rowLen, stride) ==
  IF (Len(s) - pos) \div rowLen = 0 THEN ErrV(ErrUnexpectedEOF)
  ELSE IF written(d.Width, d.bpp) > stride THEN PanicV("index out of range")
  ELSE IF (Len(s) - pos) \div rowLen < d.Height THEN ErrV(ErrUnexpectedEOF)
  ELSE [kind |-> "ok", pos |-> pos + d.Height * rowLen,
        img |-> decodedImage(d, s, pos, rowLen, stride)]

decodeRows(d, s, pos) ==
  rowLoop(d, s, pos, rowBytes(d.Width, d.bpp), pixStride(d.Width, d.bpp))

decode(d, s, pos) ==
  IF d.bpp \in {1, 4, 8, 24, 32} THEN decodeRows(d, s, pos) ELSE ErrV(ErrNotImplemented)

decodeWith(s, nd) == IF nd.kind = "err" THEN nd ELSE decode(nd.d, s, nd.pos)

\* bmp.Decode
bmpDecode(s) == decodeWith(s, newDecoder(s))

(***************************************************************************)
(* package ico                                                             *)
(***************************************************************************)
ZeroHeader == [Reserved |-> 0, ImageType |-> 0, Count |-> 0]

\* h := header{}; binary.Read(r, binary.LittleEndian, &h): the error is
\* dropped, so a short stream leaves the zero header.
headerOf(r) ==
  IF r.kind = "ok"
    THEN [Reserved |-> I16(r.data, 0), ImageType |-> I16(r.data, 2), Count |-> I16(r.data, 4)]
    ELSE ZeroHeader

\* checkHeader with the count test off by one: a count of 0 is let through.
checkHeaderZeroCount(h, pos) ==
  IF h.ImageType # 1 THEN [kind |-> "err", err |-> ErrImageType, h |-> h, pos |-> pos]
  ELSE IF h.Count < 0 THEN [kind |-> "err", err |-> ErrCount, h |-> h, pos |-> pos]
  ELSE [kind |-> "ok", h |-> h, pos |-> pos]

checkHeader(h, pos) ==
  IF h.ImageType # 1 THEN [kind |-> "err", err |-> ErrImageType, h |-> h, pos |-> pos]
  ELSE IF h.Count <= 0 THEN [kind |-> "err", err |-> ErrCount, h |-> h, pos |-> pos]
  ELSE [kind |-> "ok", h |-> h, pos |-> pos]

readHeaderFrom(r) == checkHeader(headerOf(r), r.pos)

readHeader(s) == readHeaderFrom(ReadFull(s, 0, headerSize))

ZeroDirectory == [Width |-> 0, Height |-> 0, ColorCount |-> 0, Reserved |-> 0,
                  Planes |-> 0, BitCount |-> 0, BytesInRes |-> 0, ImageOffset |-> 0]

directoryAt(b, o) ==
  [Width |-> b[o + 1], Height |-> b[o + 2], ColorCount |-> b[o + 3], Reserved |-> b[o + 4],
   Planes |-> I16(b, o + 4), BitCount |-> I16(b, o + 6),
   BytesInRes |-> I32(b, o + 8), ImageOffset |-> I32(b, o + 12)]

directoriesOf(r, size) ==
  [ds |-> [k \in 1..size |->
             IF r.kind = "ok" THEN directoryAt(r.data, directorySize * (k - 1))
                              ELSE ZeroDirectory],
   pos |-> r.pos]

\* readDirectoris: size records; the error of binary.Read is dropped, so a
\* short table leaves size zero records and a drained reader.
readDirectoris(s, pos, size) == directoriesOf(ReadFull(s, pos, directorySize * size), size)

\* The BITMAPFILEHEADER and BITMAPINFOHEADER newBMPReader writes.
bmpFileHeader(total, offBits) == << 66, 77 >> \o LE32(total) \o LE16(0) \o LE16(0) \o LE32(offBits)

bmpInfoHeader(ih) ==
  LE32(ih.Size) \o LE32(ih.Width) \o LE32(ih.Height) \o LE16(ih.Planes) \o LE16(ih.BitCount)
    \o LE32(ih.Compression) \o LE32(ih.SizeImage) \o LE32(ih.XPelsPerMeter)
    \o LE32(ih.YPelsPerMeter) \o LE32(ih.ColorUsed) \o LE32(ih.ColorImportant)

\* The fresh 40-byte monochrome header of the AND stream.
andInfoHeader(ih) ==
  [Size |-> bmpInfoHeaderSize, Width |-> ih.Width, Height |-> GoDiv(ih.Height, 2),
   Planes |-> 0, BitCount |-> 1, Compression |-> 0, SizeImage |-> 0, XPelsPerMeter |-> 0,
   YPelsPerMeter |-> 0, ColorUsed |-> 0, ColorImportant |-> 0]

\* psize: ColorUsed*4, or (1 << BitCount)*4 when that is 0 and BitCount < 16
paletteSize(ih) ==
  IF ih.ColorUsed * 4 = 0 /\ ih.BitCount < 16 THEN Pow2(ih.BitCount) * 4 ELSE ih.ColorUsed * 4

\* dirDim without the special case: the byte as it is.
dirDimRaw(b) == b

\* when width (height) is 0, it is treated as 256 instead
dirDim(b) == IF b = 0 THEN 256 ELSE b

\* width must be an integer multiple of 4 bytes
xorStride(dir, ih) == ((dirDim(dir.Width) * ih.BitCount + 31) \div 32) * 4

xorBlockSize(dir, ih) == paletteSize(ih) + xorStride(dir, ih) * dirDim(dir.Height)

\* The XOR stream: file header, the info header with its height halved, and
\* the palette and XOR rows d[:xorSize].
xorStream(ih, d, psize, xorSize) ==
  bmpFileHeader(bmpHeaderSize + ih.Size + xorSize, bmpHeaderSize + ih.Size + psize)
    \o bmpInfoHeader([ih EXCEPT !.Height = GoDiv(ih.Height, 2)])
    \o SubSeq(d, 1, xorSize)

\* The AND stream: file header, a fresh monochrome header, the black / white
\* palette and the rest of the payload d[xorSize:].
andStream(ih, d, xorSize) ==
  bmpFileHeader(bmpHeaderSize + bmpInfoHeaderSize + (8 + Len(d) - xorSize),
                bmpHeaderSize + bmpInfoHeaderSize + 8)
    \o bmpInfoHeader(andInfoHeader(ih))
    \o << 0, 0, 0, 255 >> \o << 255, 255, 255, 255 >>
    \o SubSeq(d, xorSize + 1, Len(d))

\* d[:xorSize] and d[xorSize:] need xorSize <= len(d): when it is larger,
\* d[:xorSize] panics if it passes cap(d), and d[xorSize:] (low > len(d))
\* panics if it does not.
splitPayload(ih, d, psize, xorSize) ==
  IF xorSize > Len(d) THEN PanicV("slice bounds out of range")
  ELSE [kind |-> "ok", xor |-> xorStream(ih, d, psize, xorSize),
        and |-> andStream(ih, d, xorSize), ih |-> ih, xorSize |-> xorSize,
        psize |-> psize]

newBMPReaderFrom(dir, data, r) ==
  IF r.kind = "err" THEN r
  ELSE splitPayload(r.ih, SubSeq(data, r.pos + 1, Len(data)), paletteSize(r.ih),
                    xorBlockSize(dir, r.ih))

\* newBMPReader: d is what follows the 40 bytes ReadInfoHeader consumed.
newBMPReader(dir, data) == newBMPReaderFrom(dir, data, ReadInfoHeader(data, 0))

\* image.Image.At(x, y).RGBA() >> 8 for the three image types bmp.Decode
\* returns; a palette index beyond the palette is an index-out-of-range panic.
AtOutOfRange(img, x, y) ==
  img.type = "Paletted" /\ img.Pix[y * img.Stride + x + 1] >= Len(img.Palette)

PremulNRGBA(c, a) == (((c * 257) * a) \div 255) \div 256

At(img, x, y) ==
  LET o == y * img.Stride
  IN  CASE img.type = "Paletted" -> img.Palette[img.Pix[o + x + 1] + 1]
        [] img.type = "RGBA" -> SubSeq(img.Pix, o + 4 * x + 1, o + 4 * x + 4)
        [] img.type = "NRGBA" ->
             LET a == img.Pix[o + 4 * x + 4]
             IN  << PremulNRGBA(img.Pix[o + 4 * x + 1], a),
                    PremulNRGBA(img.Pix[o + 4 * x + 2], a),
                    PremulNRGBA(img.Pix[o + 4 * x + 3], a), a >>

\* andImg.(*image.Paletted).Palette[1] = color.RGBA{0, 0, 0, 0}
remapMask(andImg) == [andImg EXCEPT !.Palette[2] = << 0, 0, 0, 0 >>]

\* Whether the mask pixel is opaque (palette entry 0) after the remap.
maskOpaque(mask, x, y) == At(mask, x, y)[4] = 255

\* draw.DrawMask(img, img.Bounds(), xorImg, {0,0}, andImg, {0,0}, draw.Src) on
\* a fresh image.NewRGBA(xorImg.Bounds()): a pixel whose mask alpha is 0 is
\* set transparent, one whose mask alpha is full takes the source colour.
\* srcAll: whether the library reads the source pixel under a transparent
\* mask pixel too (the RGBA64Image path does, the generic loop does not).
DrawMask(xorImg, mask, srcAll) ==
  IF \E y \in 0..(xorImg.H - 1) : \E x \in 0..(xorImg.W - 1) :
       AtOutOfRange(xorImg, x, y) /\ (srcAll \/ maskOpaque(mask, x, y))
    THEN PanicV("index out of range")
    ELSE [kind |-> "ok",
          img |-> [type |-> "RGBA", W |-> xorImg.W, H |-> xorImg.H,
                   Stride |-> 4 * xorImg.W, Palette |-> << >>,
                   Pix |-> [k \in 1..(4 * xorImg.W * xorImg.H) |->
                              IF maskOpaque(mask, ((k - 1) % (4 * xorImg.W)) \div 4,
                                            (k - 1) \div (4 * xorImg.W))
                                THEN At(xorImg, ((k - 1) % (4 * xorImg.W)) \div 4,
                                        (k - 1) \div (4 * xorImg.W))[((k - 1) % 4) + 1]
                                ELSE 0]]]

(***************************************************************************)
(* png.Decode, the external collaborator of Decode, with the readers it    *)
(* stands on (hash/crc32, hash/adler32, compress/flate, compress/zlib).    *)
(* Modelled: the chunk sequence with its checksums and order rules, IHDR,  *)
(* one IDAT chunk of less than 4096 bytes holding a zlib stream of stored  *)
(* and fixed-Huffman blocks, and non-interlaced images of 8 bits per       *)
(* channel (grey, grey + alpha, RGB, RGBA) with the five row filters.      *)
(* What lies outside is left without a value: a CASE with no arm for it.   *)
(***************************************************************************)
PngSignature == << 137, 80, 78, 71, 13, 10, 26, 10 >>

ErrNotPng == "png: invalid format: not a PNG file"
ErrChunkOrder == "png: invalid format: chunk out of order"
ErrPngChecksum == "png: invalid format: invalid checksum"
ErrIHDRLength == "png: invalid format: bad IHDR length"
ErrIENDLength == "png: invalid format: bad IEND length"
ErrInterlace == "png: invalid format: invalid interlace method"
ErrDimension == "png: invalid format: non-positive dimension"
ErrPixelData == "png: invalid format: not enough pixel data"
ErrTooMuchData == "png: invalid format: too much pixel data"
ErrBadFilter == "png: invalid format: bad filter type"
ErrCompressionMethod == "png: unsupported feature: compression method"
ErrFilterMethod == "png: unsupported feature: filter method"
ErrZlibHeader == "zlib: invalid header"
ErrZlibDictionary == "zlib: invalid dictionary"
ErrZlibChecksum == "zlib: invalid checksum"

\* flate.CorruptInputError(f.roffset).Error()
ErrCorrupt(roffset) == "flate: corrupt input before offset " \o ToString(roffset)

\* UnsupportedError(fmt.Sprintf("bit depth %d, color type %d", ...)).Error()
ErrColorType(depth, ct) ==
  "png: unsupported feature: bit depth " \o ToString(depth) \o ", color type " \o ToString(ct)

\* err.Error()
errText(e) == IF e = ErrUnexpectedEOF THEN "unexpected EOF" ELSE IF e = ErrEOF THEN "EOF" ELSE e

\* FormatError(err.Error()).Error()
ErrFormat(e) == "png: invalid format: " \o errText(e)

\* e, with v evaluated first: a recursion that hands a running value on by
\* halves has it evaluated at each call, not all at the end.
After(v, e) == IF v = v THEN e ELSE e

\* Bitwise exclusive or of two numbers of 4, 8 and 16 bits.
Xor4(a, b) ==
  ((a + b) % 2) + 2 * (((a \div 2) + (b \div 2)) % 2) + 4 * (((a \div 4) + (b \div 4)) % 2)
    + 8 * (((a \div 8) + (b \div 8)) % 2)

Xor8(a, b) == Xor4(a % 16, b % 16) + 16 * Xor4(a \div 16, b \div 16)

Xor(a, b) == Xor8(a % 256, b % 256) + 256 * Xor8(a \div 256, b \div 256)

\* hash/crc32, IEEE polynomial 0xedb88320: the 32-bit register is kept as
\* << high 16 bits, low 16 bits >>.  One bit of the update:
crcShift(c) ==
  IF c[2] % 2 = 1
    THEN << Xor(c[1] \div 2, 60856), Xor((c[2] \div 2) + 32768 * (c[1] % 2), 33568) >>
    ELSE << c[1] \div 2, (c[2] \div 2) + 32768 * (c[1] % 2) >>

\* k bits of the update.
RECURSIVE crcBits(_, _)
crcBits(c, k) == IF k = 0 THEN c ELSE crcShift(crcBits(c, k - 1))

\* The table of the update: what four bits of the update make of the
\* register values 0 .. 15.
crcTable == [i \in 0..15 |-> crcBits(<< 0, i >>, 4)]

\* Four bits of the update by the table, x being the next four bits of
\* the data.
crcMix(c, t) ==
  After(t, << Xor(c[1] \div 16, t[1]), Xor((c[2] \div 16) + 4096 * (c[1] % 16), t[2]) >>)

crcHalf(c, x) == After(c, crcMix(c, crcTable[Xor4(c[2] % 16, x)]))

\* One byte of the update.
crcByte(c, b) == crcHalf(crcHalf(c, b % 16), b \div 16)

\* The register c after the bytes data[from .. to], the range taken by
\* halves.
RECURSIVE crcUpdate(_, _, _, _)
crcUpdate(c, data, from, to) ==
  After(c, IF from = to THEN crcByte(c, data[from])
           ELSE crcUpdate(crcUpdate(c, data, from, (from + to) \div 2), data,
                          ((from + to) \div 2) + 1, to))

crcSum(c) == << 65535 - c[1], 65535 - c[2] >>

crc32(data, from, to) ==
  IF to < from THEN << 0, 0 >> ELSE crcSum(crcUpdate(<< 65535, 65535 >>, data, from, to))

\* binary.BigEndian.Uint32 of the four bytes after offset p, as two halves.
BE32Halves(data, p) == << data[p + 1] * 256 + data[p + 2], data[p + 3] * 256 + data[p + 4] >>

\* binary.BigEndian.Uint32 of the four bytes after offset p, below 2^31.
BE32(data, p) ==
  ((data[p + 1] * 256 + data[p + 2]) * 256 + data[p + 3]) * 256 + data[p + 4]

\* hash/adler32 of the bytes of s, as << b, a >> (the sum is b<<16 | a).
adlerByte(ab, x) == << (ab[1] + ab[2] + x) % 65521, (ab[2] + x) % 65521 >>

RECURSIVE adlerUpdate(_, _, _, _)
adlerUpdate(ab, s, from, to) ==
  After(ab, IF from = to THEN adlerByte(ab, s[from])
            ELSE adlerUpdate(adlerUpdate(ab, s, from, (from + to) \div 2), s,
                             ((from + to) \div 2) + 1, to))

adler32(s) == IF s = << >> THEN << 0, 1 >> ELSE adlerUpdate(<< 0, 1 >>, s, 1, Len(s))

(* compress/flate.  f is the deflate stream, bp the number of bits taken   *)
(* from it, out the bytes written so far, E the error the source gives     *)
(* once its bytes are used up.  Bytes are fetched one at a time as bits    *)
(* are needed, so f.roffset is the bit count rounded up to bytes.  The     *)
(* decompressor goes step by step (f.step): a block header with a stored   *)
(* block's bytes, or one symbol of a Huffman block.                        *)
zbit(f, i) == (f[(i \div 8) + 1] \div Pow2(i % 8)) % 2

\* n bits from bit i on, the first one least significant (extra bits).
RECURSIVE bitsLSB(_, _, _)
bitsLSB(f, i, n) ==
  IF n = 0 THEN 0
  ELSE IF n = 1 THEN zbit(f, i)
  ELSE bitsLSB(f, i, n \div 2) + Pow2(n \div 2) * bitsLSB(f, i + (n \div 2), n - (n \div 2))

\* n bits from bit i on, the first one most significant (Huffman codes).
RECURSIVE bitsMSB(_, _, _)
bitsMSB(f, i, n) ==
  IF n = 1 THEN zbit(f, i)
  ELSE bitsMSB(f, i, n \div 2) * Pow2(n - (n \div 2)) + bitsMSB(f, i + (n \div 2), n - (n \div 2))

roffset(bp) == (bp + 7) \div 8

\* The decompressor before its next step, st being "block" or "huff".
\* flush tells that the step just taken flushed the window with no error
\* set; handed is the number of bytes written when that last happened:
\* Read hands those bytes over with a nil error, the bytes written after
\* that come with the error that ends the stream.
flateState(st, bp, out, final) ==
  [st |-> st, bp |-> bp, out |-> out, final |-> final, err |-> "",
   flush |-> FALSE, handed |-> 0]

\* The decompressor at its end: what its Read calls add up to is the bytes
\* written and the error that ends them (io.EOF after the final block).
flateEnd(out, err, bp) ==
  [st |-> "done", bp |-> bp, out |-> out, final |-> 1, err |-> err,
   flush |-> FALSE, handed |-> 0]

\* Length symbols 257 .. 285: extra bits and base length.
lengthExtra(v) == IF v < 265 THEN 0 ELSE IF v < 285 THEN (v - 261) \div 4 ELSE 0

lengthBase(v) ==
  IF v < 265 THEN v - 254
  ELSE IF v < 269 THEN v * 2 - 519
  ELSE IF v < 273 THEN v * 4 - 1057
  ELSE IF v < 277 THEN v * 8 - 2149
  ELSE IF v < 281 THEN v * 16 - 4365
  ELSE IF v < 285 THEN v * 32 - 8861
  ELSE 258

\* Distance codes 0 .. 29: extra bits and base distance.
distExtra(dc) == IF dc < 4 THEN 0 ELSE (dc - 2) \div 2

distBase(dc) ==
  IF dc < 4 THEN dc + 1
  ELSE Pow2(distExtra(dc) + 1) + 1 + (dc % 2) * Pow2(distExtra(dc))

\* dictDecoder.writeCopy: n bytes from dist back, copied one at a time, so
\* that a copy longer than dist repeats the last dist bytes.
writeCopy(out, dist, n) ==
  out \o [i \in 1..n |-> out[Len(out) - dist + 1 + ((i - 1) % dist)]]

finishBlock(bp, out, final) ==
  IF final = 1 THEN flateEnd(out, ErrEOF, bp) ELSE flateState("block", bp, out, 0)

huffCopy(f, bp, out, final, E, length, dist) ==
  IF dist > Len(out) THEN flateEnd(out, ErrCorrupt(roffset(bp)), bp)
  ELSE flateState("huff", bp, writeCopy(out, dist, length), final)

huffDistExtra(f, bp, out, final, E, length, dc) ==
  IF dc >= 30 THEN flateEnd(out, ErrCorrupt(roffset(bp)), bp)
  ELSE IF bp + distExtra(dc) > 8 * Len(f) THEN flateEnd(out, E, bp)
  ELSE huffCopy(f, bp + distExtra(dc), out, final, E, length,
                distBase(dc) + bitsLSB(f, bp, distExtra(dc)))

\* The fixed distance code: five bits, reversed.
huffDist(f, bp, out, final, E, length) ==
  IF bp + 5 > 8 * Len(f) THEN flateEnd(out, E, bp)
  ELSE huffDistExtra(f, bp + 5, out, final, E, length, bitsMSB(f, bp, 5))

huffSymbol(f, bp, out, final, E, v) ==
  IF v < 256 THEN flateState("huff", bp, Append(out, v), final)
  ELSE IF v = 256 THEN finishBlock(bp, out, final)
  ELSE IF v >= 286 THEN flateEnd(out, ErrCorrupt(roffset(bp)), bp)
  ELSE IF bp + lengthExtra(v) > 8 * Len(f) THEN flateEnd(out, E, bp)
  ELSE huffDist(f, bp + lengthExtra(v), out, final, E,
                lengthBase(v) + bitsLSB(f, bp, lengthExtra(v)))

\* One symbol of huffmanBlock.  huffSym with the fixed literal / length
\* code: 7 bits for 256 .. 279, 8 bits for 0 .. 143 and 280 .. 287, 9 bits
\* for 144 .. 255.
huffmanBlock(f, bp, out, final, E) ==
  IF bp + 7 > 8 * Len(f) THEN flateEnd(out, E, bp)
  ELSE IF bitsMSB(f, bp, 7) <= 23
    THEN huffSymbol(f, bp + 7, out, final, E, 256 + bitsMSB(f, bp, 7))
  ELSE IF bp + 8 > 8 * Len(f) THEN flateEnd(out, E, bp)
  ELSE IF bitsMSB(f, bp, 8) <= 191
    THEN huffSymbol(f, bp + 8, out, final, E, bitsMSB(f, bp, 8) - 48)
  ELSE IF bitsMSB(f, bp, 8) <= 199
    THEN huffSymbol(f, bp + 8, out, final, E, 280 + bitsMSB(f, bp, 8) - 192)
  ELSE IF bp + 9 > 8 * Len(f) THEN flateEnd(out, E, bp)
  ELSE huffSymbol(f, bp + 9, out, final, E, 144 + bitsMSB(f, bp, 9) - 400)

\* dataBlock: a stored block starts at the next byte with LEN and NLEN; an
\* empty block flushes the window before finishBlock (which sets io.EOF
\* after a final block); a block cut short gives the bytes there are.
dataBlock(f, pos, out, final, E) ==
  IF pos + 4 > Len(f) THEN flateEnd(out, E, 8 * Len(f))
  ELSE IF (f[pos + 1] + f[pos + 3] # 255) \/ (f[pos + 2] + f[pos + 4] # 255)
    THEN flateEnd(out, ErrCorrupt(pos + 4), 8 * (pos + 4))
  ELSE IF f[pos + 1] + 256 * f[pos + 2] = 0
    THEN [finishBlock(8 * (pos + 4), out, final) EXCEPT !.flush = (final = 0)]
  ELSE IF pos + 4 + f[pos + 1] + 256 * f[pos + 2] > Len(f)
    THEN flateEnd(out \o SubSeq(f, pos + 5, Len(f)), E, 8 * Len(f))
  ELSE finishBlock(8 * (pos + 4 + f[pos + 1] + 256 * f[pos + 2]),
                   out \o SubSeq(f, pos + 5, pos + 4 + f[pos + 1] + 256 * f[pos + 2]),
                   final)

\* nextBlock: the final bit and the two type bits.
nextBlock(f, bp, out, E) ==
  IF bp + 3 > 8 * Len(f) THEN flateEnd(out, E, bp)
  ELSE CASE zbit(f, bp + 1) + 2 * zbit(f, bp + 2) = 0 ->
              dataBlock(f, roffset(bp + 3), out, zbit(f, bp), E)
         [] zbit(f, bp + 1) + 2 * zbit(f, bp + 2) = 1 ->
              flateState("huff", bp + 3, out, zbit(f, bp))
         [] zbit(f, bp + 1) + 2 * zbit(f, bp + 2) = 3 ->
              flateEnd(out, ErrCorrupt(roffset(bp + 3)), bp + 3)

\* The last multiple of the window size (32768 bytes) up to n: the window
\* is flushed, no error set, each time it is full.
windowFull(n) == (n \div Pow2(15)) * Pow2(15)

\* The state t a step has led to from state s, with the bytes handed over
\* by the flushes that had no error set.
flateHanded(s, t) ==
  [t EXCEPT !.flush = FALSE,
            !.handed = IF t.flush THEN Len(t.out)
                       ELSE IF windowFull(Len(t.out)) > Len(s.out) THEN windowFull(Len(t.out))
                       ELSE s.handed]

\* f.step(f)
flateStep(f, s, E) ==
  CASE s.st = "done" -> s
    [] s.st = "block" -> flateHanded(s, nextBlock(f, s.bp, s.out, E))
    [] s.st = "huff" -> flateHanded(s, huffmanBlock(f, s.bp, s.out, s.final, E))

\* n steps, taken by halves.
RECURSIVE flateRun(_, _, _, _)
flateRun(f, s, n, E) ==
  After(s, IF n <= 1 THEN flateStep(f, s, E)
           ELSE flateRun(f, flateRun(f, s, n \div 2, E), n - (n \div 2), E))

\* The decompressor run to its end: a step takes at least 3 bits.
inflate(f, E) == flateRun(f, flateState("block", 0, << >>, 0), 3 * Len(f) + 2, E)

(* compress/zlib.  NewReader fails on a short or wrong header ("open");    *)
(* Read gives the decompressor's bytes and, after its io.EOF, checks the   *)
(* Adler-32 that follows the last byte the decompressor fetched.           *)
zlibOpenErr(e) == [kind |-> "open", err |-> e]

zlibRead(r, err) == [kind |-> "read", out |-> r.out, handed |-> r.handed, err |-> err]

zlibSum(f, r, E) ==
  IF r.err # ErrEOF THEN zlibRead(r, r.err)
  ELSE IF roffset(r.bp) + 4 > Len(f) THEN zlibRead(r, E)
  ELSE IF BE32Halves(f, roffset(r.bp)) # adler32(r.out) THEN zlibRead(r, ErrZlibChecksum)
  ELSE zlibRead(r, ErrEOF)

zlibBody(f, E) == zlibSum(f, inflate(f, E), E)

zlibReader(z, E) ==
  IF Len(z) < 2 THEN zlibOpenErr(E)
  ELSE IF z[1] % 16 # 8 \/ z[1] \div 16 > 7 \/ (z[1] * 256 + z[2]) % 31 # 0
    THEN zlibOpenErr(ErrZlibHeader)
  ELSE IF (z[2] \div 32) % 2 = 0 THEN zlibBody(SubSeq(z, 3, Len(z)), E)
  ELSE IF Len(z) < 6 THEN zlibOpenErr(E)
  ELSE IF SubSeq(z, 3, 6) # << 0, 0, 0, 1 >> THEN zlibOpenErr(ErrZlibDictionary)
  ELSE zlibBody(SubSeq(z, 7, Len(z)), E)

(* image/png.  A decoder d carries the IHDR fields; data is the payload   *)
(* and p the offset the reader has reached.                                *)
TypeIHDR == << 73, 72, 68, 82 >>
TypePLTE == << 80, 76, 84, 69 >>
TypeIDAT == << 73, 68, 65, 84 >>
TypeIEND == << 73, 69, 78, 68 >>
TypetRNS == << 116, 82, 78, 83 >>

\* d.verifyChecksum() for the chunk whose type starts after offset t and
\* whose data ends at offset e: "ok" or the error.
verifyChecksum(data, t, e) ==
  IF Len(data) - e < 4 THEN ErrUnexpectedEOF
  ELSE IF BE32Halves(data, e) # crc32(data, t + 1, e) THEN ErrPngChecksum
  ELSE "ok"

\* The colour models an IHDR may name.
cbValid(depth, ct) ==
  \/ depth \in {1, 2, 4} /\ ct \in {0, 3}
  \/ depth = 8 /\ ct \in {0, 2, 3, 4, 6}
  \/ depth = 16 /\ ct \in {0, 2, 4, 6}

bytesPerPixel(ct) == CASE ct = 0 -> 1 [] ct = 4 -> 2 [] ct = 2 -> 3 [] ct = 6 -> 4

\* The Pix bytes of one row: image.Gray, image.RGBA (alpha 0xff) or
\* image.NRGBA (grey + alpha spread over three channels).
rowPix(ct, cdat, w) ==
  CASE ct = 0 -> cdat
    [] ct = 6 -> cdat
    [] ct = 2 -> [k \in 1..(4 * w) |->
                    IF (k - 1) % 4 = 3 THEN 255 ELSE cdat[3 * ((k - 1) \div 4) + ((k - 1) % 4) + 1]]
    [] ct = 4 -> [k \in 1..(4 * w) |->
                    IF (k - 1) % 4 = 3 THEN cdat[2 * ((k - 1) \div 4) + 2]
                    ELSE cdat[2 * ((k - 1) \div 4) + 1]]

pngImageType(ct) == CASE ct = 0 -> "Gray" [] ct = 2 -> "RGBA" [] ct = 4 -> "NRGBA" [] ct = 6 -> "NRGBA"

pngImageStride(ct, w) == IF ct = 0 THEN w ELSE 4 * w

Abs(n) == IF n < 0 THEN -n ELSE n

\* The Paeth predictor of left a, above b and upper left c.
paeth(a, b, c) ==
  IF Abs(b - c) <= Abs(a - c) /\ Abs(b - c) <= Abs(a + b - 2 * c) THEN a
  ELSE IF Abs(a - c) <= Abs(a + b - 2 * c) THEN b
  ELSE c

\* The byte bpp places to the left in the row being rebuilt, 0 before it.
leftOf(acc, bpp) == IF Len(acc) < bpp THEN 0 ELSE acc[Len(acc) - bpp + 1]

\* What filter ft adds to byte i of the row: acc holds the bytes already
\* rebuilt, pdat the row above.
predictor(ft, acc, pdat, bpp, i) ==
  CASE ft = 0 -> 0
    [] ft = 1 -> leftOf(acc, bpp)
    [] ft = 2 -> pdat[i]
    [] ft = 3 -> (leftOf(acc, bpp) + pdat[i]) \div 2
    [] ft = 4 -> paeth(leftOf(acc, bpp), pdat[i], IF i <= bpp THEN 0 ELSE pdat[i - bpp])

\* One more byte of the row rebuilt.
unfilterByte(ft, cdat, pdat, bpp, acc) ==
  IF Len(acc) = Len(cdat) THEN acc
  ELSE Append(acc, (cdat[Len(acc) + 1] + predictor(ft, acc, pdat, bpp, Len(acc) + 1)) % 256)

\* n more bytes, taken by halves.
RECURSIVE unfilterBytes(_, _, _, _, _, _)
unfilterBytes(ft, cdat, pdat, bpp, acc, n) ==
  After(acc, IF n <= 1 THEN unfilterByte(ft, cdat, pdat, bpp, acc)
             ELSE unfilterBytes(ft, cdat, pdat, bpp,
                                unfilterBytes(ft, cdat, pdat, bpp, acc, n \div 2),
                                n - (n \div 2)))

unfilter(ft, cdat, pdat, bpp) == unfilterBytes(ft, cdat, pdat, bpp, << >>, Len(cdat))

rowSize(d) == 1 + bytesPerPixel(d.ct) * d.w

\* readImagePass before row y: the row above and the Pix bytes so far.
rowsState(y, pdat, pix) == [kind |-> "rows", y |-> y, pdat |-> pdat, pix |-> pix]

rowStored(d, r, cdat) == rowsState(r.y + 1, cdat, r.pix \o rowPix(d.ct, cdat, d.w))

\* One row of readImagePass: it is read in full (a stream that ends first
\* is "not enough pixel data", any other error is returned as it is), then
\* its filter is undone.
readRow(d, s, r) ==
  IF r.kind # "rows" \/ r.y = d.h THEN r
  ELSE IF Len(s.out) < (r.y + 1) * rowSize(d)
    THEN IF s.err \in {ErrEOF, ErrUnexpectedEOF} THEN ErrV(ErrPixelData) ELSE ErrV(s.err)
  ELSE IF s.out[r.y * rowSize(d) + 1] > 4 THEN ErrV(ErrBadFilter)
  ELSE rowStored(d, r,
                 unfilter(s.out[r.y * rowSize(d) + 1],
                          SubSeq(s.out, r.y * rowSize(d) + 2, (r.y + 1) * rowSize(d)),
                          r.pdat, bytesPerPixel(d.ct)))

\* n rows, taken by halves.
RECURSIVE readRows(_, _, _, _)
readRows(d, s, r, n) ==
  After(r, IF n <= 1 THEN readRow(d, s, r)
           ELSE readRows(d, s, readRows(d, s, r, n \div 2), n - (n \div 2)))

readImagePass(d, s) == readRows(d, s, rowsState(0, Zeros(rowSize(d) - 1), << >>), d.h)

\* decode(), after the rows: a Read of one byte must give no byte and
\* io.EOF, and the IDAT chunk must have been read to its end.  A byte that
\* comes with no error (more bytes follow it, or a flush handed it over)
\* is too much; a last byte comes with the error that ends the stream,
\* which is looked at first.
pngCheckEOF(d, s, r) ==
  IF r.kind # "rows" THEN r
  ELSE IF Len(s.out) > d.h * rowSize(d) + 1 \/ s.handed > d.h * rowSize(d)
    THEN ErrV(ErrTooMuchData)
  ELSE IF s.err # ErrEOF THEN ErrV(ErrFormat(s.err))
  ELSE IF Len(s.out) > d.h * rowSize(d) \/ d.idatLeft THEN ErrV(ErrTooMuchData)
  ELSE [kind |-> "ok",
        img |-> [type |-> pngImageType(d.ct), W |-> d.w, H |-> d.h,
                 Stride |-> pngImageStride(d.ct, d.w), Palette |-> << >>, Pix |-> r.pix]]

\* What the source of the zlib stream gives, in place of an error, when the
\* bytes of its IDAT chunk are used up and a further IDAT chunk follows.
MoreIDAT == "IDAT"

\* d.decode().  A stream that goes on in a further IDAT chunk is left
\* without a value.
pngDecodeImage(d, s) ==
  CASE s.err # MoreIDAT ->
    IF s.kind = "open" THEN ErrV(s.err)
    ELSE pngCheckEOF(d, s, readImagePass(d, s))

\* What decoder.Read gives once the bytes of the IDAT chunk at offset p are
\* used up: the end of a cut chunk, or the checksum and the header of the
\* next chunk, which must be another IDAT.
idatSourceErr(data, p, len, whole) ==
  IF ~whole THEN ErrUnexpectedEOF
  ELSE IF verifyChecksum(data, p + 4, p + 8 + len) # "ok"
    THEN verifyChecksum(data, p + 4, p + 8 + len)
  ELSE IF Len(data) - (p + 12 + len) < 8 THEN ErrUnexpectedEOF
  ELSE IF SubSeq(data, p + 12 + len + 5, p + 12 + len + 8) # TypeIDAT THEN ErrPixelData
  ELSE MoreIDAT

RECURSIVE parseChunk(_, _, _, _)

\* After a chunk: its checksum, then the next chunk.
nextChunk(data, t, e, stage, d) ==
  IF verifyChecksum(data, t, e) # "ok" THEN ErrV(verifyChecksum(data, t, e))
  ELSE parseChunk(data, e + 4, stage, d)

\* parseIDAT, its result r in hand.
afterIDAT(data, p, len, d, r) ==
  IF r.kind # "ok" THEN r
  ELSE nextChunk(data, p + 4, p + 8 + len, "SeenIDAT", [d EXCEPT !.img = r.img])

\* parseIDAT with the zlib stream z of the chunk and what follows it, E.
parseIDATStream(data, p, len, d, z, E) ==
  After(E, afterIDAT(data, p, len, d, pngDecodeImage(d, zlibReader(z, E))))

\* parseIDAT for the chunk at offset p with avail of its len bytes there.
parseIDATData(data, p, len, avail, d) ==
  CASE d.interlace = 0 /\ d.depth = 8 /\ avail < 4096 ->
    parseIDATStream(data, p, len, [d EXCEPT !.idatLeft = (avail < len)],
                    SubSeq(data, p + 9, p + 8 + avail),
                    idatSourceErr(data, p, len, avail = len))

parseIDAT(data, p, d) ==
  IF data[p + 1] >= 128 \/ BE32(data, p) > Len(data) - (p + 8)
    THEN parseIDATData(data, p, Len(data) - (p + 8) + 1, Len(data) - (p + 8), d)
    ELSE parseIDATData(data, p, BE32(data, p), BE32(data, p), d)

\* parseIHDR, the 13 bytes after offset q in hand.
parseIHDRData(data, p, q) ==
  IF data[q + 11] # 0 THEN ErrV(ErrCompressionMethod)
  ELSE IF data[q + 12] # 0 THEN ErrV(ErrFilterMethod)
  ELSE IF data[q + 13] \notin {0, 1} THEN ErrV(ErrInterlace)
  ELSE IF data[q + 1] >= 128 \/ data[q + 5] >= 128 \/ BE32(data, q) = 0 \/ BE32(data, q + 4) = 0
    THEN ErrV(ErrDimension)
  ELSE CASE BE32(data, q) < 32768 /\ BE32(data, q + 4) < 32768 ->
    IF ~cbValid(data[q + 9], data[q + 10]) THEN ErrV(ErrColorType(data[q + 9], data[q + 10]))
    ELSE nextChunk(data, p + 4, q + 13, "SeenIHDR",
                   [w |-> BE32(data, q), h |-> BE32(data, q + 4), depth |-> data[q + 9],
                    ct |-> data[q + 10], interlace |-> data[q + 13], idatLeft |-> FALSE,
                    img |-> << >>])

parseIHDR(data, p) ==
  IF SubSeq(data, p + 1, p + 4) # << 0, 0, 0, 13 >> THEN ErrV(ErrIHDRLength)
  ELSE IF Len(data) - (p + 8) < 13 THEN ErrV(ErrUnexpectedEOF)
  ELSE parseIHDRData(data, p, p + 8)

parseIEND(data, p, d) ==
  IF SubSeq(data, p + 1, p + 4) # << 0, 0, 0, 0 >> THEN ErrV(ErrIENDLength)
  ELSE IF verifyChecksum(data, p + 4, p + 8) # "ok" THEN ErrV(verifyChecksum(data, p + 4, p + 8))
  ELSE [kind |-> "ok", img |-> d.img]

\* A chunk that is not decoded: its bytes are skipped and its checksum
\* verified.
skipChunk(data, p, stage, d) ==
  CASE data[p + 1] < 128 ->
    IF Len(data) - (p + 8) < BE32(data, p) THEN ErrV(ErrUnexpectedEOF)
    ELSE nextChunk(data, p + 4, p + 8 + BE32(data, p), stage, d)

\* parseChunk: the 8 bytes of length and type, then the chunk by its type
\* and the stage the decoder is in.
parseChunk(data, p, stage, d) ==
  IF Len(data) - p < 8 THEN ErrV(ErrUnexpectedEOF)
  ELSE CASE SubSeq(data, p + 5, p + 8) = TypeIHDR ->
              IF stage # "Start" THEN ErrV(ErrChunkOrder) ELSE parseIHDR(data, p)
         [] SubSeq(data, p + 5, p + 8) = TypePLTE /\ stage # "SeenIHDR" -> ErrV(ErrChunkOrder)
         [] SubSeq(data, p + 5, p + 8) = TypeIDAT ->
              IF stage = "Start" THEN ErrV(ErrChunkOrder)
              ELSE IF stage = "SeenIDAT" THEN skipChunk(data, p, stage, d)
              ELSE IF d.ct = 3 THEN ErrV(ErrChunkOrder)
              ELSE parseIDAT(data, p, d)
         [] SubSeq(data, p + 5, p + 8) = TypeIEND ->
              IF stage # "SeenIDAT" THEN ErrV(ErrChunkOrder) ELSE parseIEND(data, p, d)
         [] SubSeq(data, p + 5, p + 8) \notin {TypeIHDR, TypePLTE, TypeIDAT, TypeIEND, TypetRNS} ->
              skipChunk(data, p, stage, d)

\* png.Decode: checkHeader reads the 8 signature bytes (a short read is
\* io.ErrUnexpectedEOF) and compares them, then chunks are parsed until
\* IEND.
pngDecode(data) ==
  IF Len(data) < 8 THEN ErrV(ErrUnexpectedEOF)
  ELSE IF SubSeq(data, 1, 8) # PngSignature THEN ErrV(ErrNotPng)
  ELSE parseChunk(data, 8, "Start", << >>)

\* The capacity of the slice io.ReadAll returns: it starts from
\* make([]byte, 0, 512) and, whenever the slice is full, grows it with
\* append(b, 0), which for a byte slice of 256 bytes or more asks for
\* cap + (cap + 768) / 4 and gets the next allocation size class.
SizeClasses ==
  {512, 576, 640, 704, 768, 896, 1024, 1152, 1280, 1408, 1536, 1792, 2048, 2304,
   2688, 3072, 3200, 3456, 4096, 4864, 5120, 5376, 6144, 6528, 6784, 6912, 8192,
   9472, 9728, 10240, 10880, 12288, 13568, 14336, 16384, 18432, 19072, 20480,
   21760, 24576, 27264, 28672, 32768}

roundupsize(n) ==
  IF n <= 32768 THEN CHOOSE c \in SizeClasses : c >= n /\ \A k \in SizeClasses : k >= n => c <= k
  ELSE ((n + 8191) \div 8192) * 8192

growslice(cap) == roundupsize(cap + (cap + 768) \div 4)

RECURSIVE readAllGrow(_, _)
readAllGrow(n, cap) == IF n < cap THEN cap ELSE readAllGrow(n, growslice(cap))

\* cap(buf) once a reader that ends with (0, io.EOF) has given n bytes.
readAllCap(n) == readAllGrow(n, 512)

\* buf[offset : offset+size] is checked against cap(buf), not len(buf): the
\* bytes between len and cap are the zeroes of the allocation ReadAll made.
bufWithSlack(b, cap) == b \o Zeros(cap - Len(b))

payloadOffset(dir, n) == dir.ImageOffset - (headerSize + directorySize * n)

NoBmp == [kind |-> "none"]

\* What one iteration leaves behind: its outcome r with the payload slice,
\* the synthesizer's result and the two decoded streams.
iteration(r, data, nbr, xorRes, andRes) ==
  r @@ [data |-> data, nbr |-> nbr, xorRes |-> xorRes, andRes |-> andRes]

composite(data, nbr, xorRes, andRes, srcAll) ==
  IF andRes.kind # "ok" THEN iteration(andRes, data, nbr, xorRes, andRes)
  ELSE iteration(DrawMask(xorRes.img, remapMask(andRes.img), srcAll), data, nbr,
                 xorRes, andRes)

decodeAnd(data, nbr, xorRes, srcAll) ==
  IF xorRes.kind # "ok" THEN iteration(xorRes, data, nbr, xorRes, NoBmp)
  ELSE composite(data, nbr, xorRes, bmpDecode(nbr.and), srcAll)

decodeXor(data, nbr, srcAll) ==
  IF nbr.kind # "ok" THEN iteration(nbr, data, nbr, NoBmp, NoBmp)
  ELSE decodeAnd(data, nbr, bmpDecode(nbr.xor), srcAll)

\* if string(data[1:4]) == "PNG" { png.Decode } else { the bitmap path };
\* data[1:4] is checked against cap(data).
dispatch(dir, data, tag, capData, srcAll) ==
  IF capData < 4 THEN iteration(PanicV("slice bounds out of range"), data, NoBmp, NoBmp, NoBmp)
  ELSE IF tag = << 80, 78, 71 >> THEN iteration(pngDecode(data), data, NoBmp, NoBmp, NoBmp)
  ELSE decodeXor(data, newBMPReader(dir, data), srcAll)

\* data := buf[offset : offset+size]
locate(dir, offset, size, full, cap, srcAll) ==
  IF offset < 0 \/ size < 0 \/ offset + size > cap
    THEN iteration(PanicV("slice bounds out of range"), << >>, NoBmp, NoBmp, NoBmp)
    ELSE dispatch(dir, SubSeq(full, offset + 1, offset + size),
                  SubSeq(full, offset + 2, offset + 4), cap - offset, srcAll)

\* The body of Decode's loop for one directory entry.
decodeEntry(dir, n, b, cap, srcAll) ==
  locate(dir, payloadOffset(dir, n), dir.BytesInRes, bufWithSlack(b, cap), cap, srcAll)

\* storeImage filling the slice from its far end.
storeImageReversed(seq, i, img) == [seq EXCEPT ![Len(seq) - i] = img]

\* imgs[i] = img
storeImage(seq, i, img) == [seq EXCEPT ![i + 1] = img]

(***************************************************************************)
(* Inputs.  A bitmap recipe names a depth, a size, a row order, the        *)
(* colours-used field and a pixel pattern; the streams handed to the two   *)
(* entry points are laid out from recipes the way the formats prescribe.   *)
(***************************************************************************)
MaxW == 9
MaxH == 2
MaxEntries == 2
MaxDelta == 512
MaxCut == 12
MaxMarker == 2
MaxCount == 2

Depths == {1, 4, 8, 24, 32}

Bm(bpp, w, h, topdown, cu, pat, alpha, ihSize) ==
  [bpp |-> bpp, w |-> w, h |-> h, topdown |-> topdown, cu |-> cu, pat |-> pat,
   alpha |-> alpha, ihSize |-> ihSize]

\* The colour the recipes give palette entry / colour number j.
PalRGB(j) == << (37 * j + 10) % 256, (59 * j + 20) % 256, (83 * j + 30) % 256 >>

\* Pixel patterns: 0 and 1 are the two checkerboards, 2 is the largest value
\* the depth can store at every pixel, 3 and up are a solid colour.
PatIndex(bm, x, y) ==
  CASE bm.pat = 0 -> (x + y) % 2
    [] bm.pat = 1 -> (x + y + 1) % 2
    [] bm.pat = 2 -> IF bm.bpp <= 8 THEN Pow2(bm.bpp) - 1 ELSE 1
    [] OTHER      -> IF bm.bpp = 1 THEN bm.pat % 2 ELSE bm.pat

\* Mask patterns: 0 all opaque, 1 and 3 the two checkerboards, 2 all transparent.
MaskBit(m, x, y) ==
  CASE m = 0 -> 0
    [] m = 1 -> (x + y) % 2
    [] m = 2 -> 1
    [] OTHER -> (x + y + 1) % 2

PaletteCount(bm) == IF bm.cu # 0 THEN bm.cu ELSE IF bm.bpp <= 8 THEN Pow2(bm.bpp) ELSE 0

PaletteBytes(bm) ==
  [k \in 1..(4 * PaletteCount(bm)) |->
     IF (k - 1) % 4 = 3 THEN 0 ELSE PalRGB((k - 1) \div 4)[3 - ((k - 1) % 4)]]

StoredStride(w, bpp) == ((w * bpp + 31) \div 32) * 4

InRowIndex(bm, x, y) == IF x < bm.w THEN PatIndex(bm, x, y) ELSE 0

\* Byte b (0-based) of the stored row that holds image row y.
XorByte(bm, y, b) ==
  CASE bm.bpp = 1 ->
         128 * InRowIndex(bm, 8 * b, y) + 64 * InRowIndex(bm, 8 * b + 1, y)
           + 32 * InRowIndex(bm, 8 * b + 2, y) + 16 * InRowIndex(bm, 8 * b + 3, y)
           + 8 * InRowIndex(bm, 8 * b + 4, y) + 4 * InRowIndex(bm, 8 * b + 5, y)
           + 2 * InRowIndex(bm, 8 * b + 6, y) + InRowIndex(bm, 8 * b + 7, y)
    [] bm.bpp = 4 -> 16 * InRowIndex(bm, 2 * b, y) + InRowIndex(bm, 2 * b + 1, y)
    [] bm.bpp = 8 -> InRowIndex(bm, b, y)
    [] bm.bpp = 24 ->
         IF b < 3 * bm.w THEN PalRGB(PatIndex(bm, b \div 3, y))[3 - (b % 3)] ELSE 0
    [] bm.bpp = 32 ->
         IF b % 4 = 3 THEN bm.alpha ELSE PalRGB(PatIndex(bm, b \div 4, y))[3 - (b % 4)]

InRowMask(m, w, x, y) == IF x < w THEN MaskBit(m, x, y) ELSE 0

MaskByte(m, w, y, b) ==
  128 * InRowMask(m, w, 8 * b, y) + 64 * InRowMask(m, w, 8 * b + 1, y)
    + 32 * InRowMask(m, w, 8 * b + 2, y) + 16 * InRowMask(m, w, 8 * b + 3, y)
    + 8 * InRowMask(m, w, 8 * b + 4, y) + 4 * InRowMask(m, w, 8 * b + 5, y)
    + 2 * InRowMask(m, w, 8 * b + 6, y) + InRowMask(m, w, 8 * b + 7, y)

\* Image row held by stored row k: bottom-up unless the recipe is top-down.
RowOf(bm, k) == IF bm.topdown THEN k ELSE bm.h - 1 - k

RowsOf(bm, n) ==
  [k \in 1..(n * bm.h) |-> XorByte(bm, RowOf(bm, (k - 1) \div n), (k - 1) % n)]

XorRows(bm) == RowsOf(bm, StoredStride(bm.w, bm.bpp))

MaskRowsOf(bm, m, n) ==
  [k \in 1..(n * bm.h) |-> MaskByte(m, bm.w, RowOf(bm, (k - 1) \div n), (k - 1) % n)]

AndRows(bm, m) == MaskRowsOf(bm, m, StoredStride(bm.w, 1))

InfoHeaderBytes(bm, height) ==
  bmpInfoHeader([Size |-> bm.ihSize, Width |-> bm.w, Height |-> height, Planes |-> 1,
                 BitCount |-> bm.bpp, Compression |-> 0, SizeImage |-> 0,
                 XPelsPerMeter |-> 0, YPelsPerMeter |-> 0, ColorUsed |-> bm.cu,
                 ColorImportant |-> 0])
    \o Zeros(IF bm.ihSize > 40 THEN bm.ihSize - 40 ELSE 0)

DropLast(s, n) == SubSeq(s, 1, Len(s) - n)

\* A standalone bitmap file, its last cut bytes dropped.
BmpFile(bm, cut) ==
  DropLast(bmpFileHeader(fileHeaderSize + bm.ihSize + 4 * PaletteCount(bm)
                           + StoredStride(bm.w, bm.bpp) * bm.h,
                         fileHeaderSize + bm.ihSize + 4 * PaletteCount(bm))
             \o InfoHeaderBytes(bm, IF bm.topdown THEN -bm.h ELSE bm.h)
             \o PaletteBytes(bm) \o XorRows(bm), cut)

\* One container entry: a bitmap recipe with its mask pattern, the two
\* directory dimension bytes, zero bytes padding the XOR block, the number of
\* payload bytes dropped, and what is added to the directory's offset and size.
EntBmp(bm, mask, dirW, dirH, padXor, cut, offDelta, sizeDelta) ==
  [kind |-> "bmp", bm |-> bm, mask |-> mask, dirW |-> dirW, dirH |-> dirH,
   padXor |-> padXor, cut |-> cut, offDelta |-> offDelta, sizeDelta |-> sizeDelta]

Std(bm, mask) == EntBmp(bm, mask, bm.w % 256, bm.h % 256, 0, 0, 0, 0)

\* The PNG files laid out here: 1x1 8-bit greyscale images of grey level 7
\* and 9, made of the signature, IHDR (25 bytes), one IDAT chunk (12 bytes
\* around a 10-byte zlib stream: 2 header bytes, 4 deflate bytes, 4
\* Adler-32 bytes) and IEND (12 bytes).  File 0 is a file that does not
\* decode: its zlib stream is a stored block of the row and one byte more,
\* an empty stored block and a block of the reserved type.
PngIds == {0, 7, 9}

PngIhdr ==
  << 0, 0, 0, 13, 73, 72, 68, 82, 0, 0, 0, 1, 0, 0, 0, 1, 8, 0, 0, 0, 0, 58, 126, 155, 85 >>

PngIdat(g) ==
  IF g = 7
    THEN << 0, 0, 0, 10, 73, 68, 65, 84, 120, 156, 99, 96, 7, 0, 0, 9, 0, 8,
            32, 35, 195, 140 >>
  ELSE IF g = 9
    THEN << 0, 0, 0, 10, 73, 68, 65, 84, 120, 156, 99, 224, 4, 0, 0, 11, 0, 10,
            195, 43, 238, 146 >>
    ELSE << 0, 0, 0, 16, 73, 68, 65, 84, 120, 1, 0, 3, 0, 252, 255, 0, 8, 9,
            0, 0, 0, 255, 255, 6, 66, 73, 161, 97 >>

PngIend == << 0, 0, 0, 0, 73, 69, 78, 68, 174, 66, 96, 130 >>

PngFile(g) == PngSignature \o PngIhdr \o PngIdat(g) \o PngIend

\* A PNG entry: the file of image id without its last cut bytes, its first
\* byte replaced when badSig.
EntPngCut(id, cut, badSig) ==
  [kind |-> "png", id |-> id, cut |-> cut, badSig |-> badSig, dirW |-> 1, dirH |-> 1,
   offDelta |-> 0, sizeDelta |-> 0]

EntPng(id) == EntPngCut(id, 0, FALSE)

Payload(e) ==
  IF e.kind = "png"
    THEN DropLast((IF e.badSig THEN << 0 >> ELSE << 137 >>) \o Tail(PngFile(e.id)), e.cut)
  ELSE DropLast(InfoHeaderBytes(e.bm, IF e.bm.topdown THEN -2 * e.bm.h ELSE 2 * e.bm.h)
                  \o PaletteBytes(e.bm) \o XorRows(e.bm) \o Zeros(e.padXor)
                  \o AndRows(e.bm, e.mask), e.cut)

\* perm[j] is the entry whose payload is laid out j-th in the file.
LayoutPos(perm, i) == CHOOSE j \in 1..Len(perm) : perm[j] = i

RECURSIVE LayoutBytes(_, _, _)
LayoutBytes(entries, perm, upto) ==
  IF upto = 0 THEN << >>
  ELSE LayoutBytes(entries, perm, upto - 1) \o Payload(entries[perm[upto]])

EntryOffset(c, i) ==
  headerSize + directorySize * Len(c.entries)
    + Len(LayoutBytes(c.entries, c.perm, LayoutPos(c.perm, i) - 1))

DirRecord(e, off) ==
  << e.dirW, e.dirH, 0, 0 >> \o LE16(1) \o LE16(IF e.kind = "png" THEN 32 ELSE e.bm.bpp)
    \o LE32(Len(Payload(e)) + e.sizeDelta) \o LE32(off + e.offDelta)

DirBytes(c, i) == DirRecord(c.entries[i], EntryOffset(c, i))

RECURSIVE DirTable(_, _)
DirTable(c, upto) == IF upto = 0 THEN << >> ELSE DirTable(c, upto - 1) \o DirBytes(c, upto)

IcoFile(c) ==
  LE16(0) \o LE16(c.marker) \o LE16(c.count) \o DirTable(c, Len(c.entries))
    \o LayoutBytes(c.entries, c.perm, Len(c.perm))

Container(marker, count, entries, perm) ==
  [api |-> "ico", marker |-> marker, count |-> count, entries |-> entries, perm |-> perm]

Single(e) == Container(1, 1, << e >>, << 1 >>)

Perms(n) == {p \in [1..n -> 1..n] : \A i, j \in 1..n : p[i] = p[j] => i = j}

B24 == Bm(24, 1, 1, FALSE, 0, 0, 255, 40)

E24 == Std(B24, 0)

\* Entries that decode: two 24-bpp pixels of different colours, an 8-wide
\* 1-bpp checkerboard under a checkerboard mask, and a PNG.
Pool ==
  {E24, Std(Bm(24, 1, 1, FALSE, 0, 1, 255, 40), 0),
   Std(Bm(1, 8, 2, FALSE, 0, 0, 255, 40), 1), EntPng(7)}

HeaderInputs ==
  {Container(m, c, << E24 >>, << 1 >>) : m \in 0..MaxMarker, c \in (-1)..MaxCount}

OrderInputs ==
  UNION {{Container(1, n, es, p) : es \in [1..n -> Pool], p \in Perms(n)} : n \in 1..MaxEntries}

BoundsInputs ==
  {Single(EntBmp(B24, 0, 1, 1, 0, 0, od, sd)) :
     od \in {-1, 0, 1, 16, MaxDelta}, sd \in {-1, 0, 1, 17, MaxDelta}}

\* PNG payloads: whole, with a wrong first byte, and cut inside each part of
\* the file.
PngInputs ==
  {Single(EntPngCut(id, cut, bad)) :
     id \in PngIds, cut \in {0, 1, 13, 17, 19, 21, 23, 25, 30, 58, 60, 63}, bad \in BOOLEAN}

CutInputs == {Single(EntBmp(B24, 0, 1, 1, 0, cut, 0, 0)) : cut \in 0..MaxCut}

\* The alpha bytes a recipe may store: only 32 bpp stores any.
Alphas(bpp) == IF bpp = 32 THEN {255, 128} ELSE {255}

PixelInputs ==
  UNION {{Single(Std(Bm(bpp, w, h, td, cu, pat, a, 40), m)) :
            w \in 1..MaxW, h \in 1..MaxH, td \in BOOLEAN, cu \in {0, 2},
            pat \in {0, 2}, a \in Alphas(bpp), m \in {1, 2}} : bpp \in Depths}

\* Directory dimension bytes of 0, with an info header that says 256 and with
\* one that does not (the XOR block is then padded to the size the directory
\* implies), and header sizes other than 40.
DimInputs ==
  {Single(EntBmp(Bm(1, 256, 1, FALSE, 0, 0, 255, 40), 1, 0, 1, 0, 0, 0, 0)),
   Single(EntBmp(Bm(1, 8, 1, FALSE, 0, 0, 255, 40), 1, 0, 1, 28, 0, 0, 0)),
   Single(EntBmp(Bm(1, 8, 256, FALSE, 0, 0, 255, 40), 1, 8, 0, 0, 0, 0, 0)),
   Single(EntBmp(Bm(1, 8, 1, FALSE, 0, 0, 255, 40), 1, 8, 0, 1020, 0, 0, 0)),
   Single(Std(Bm(24, 1, 1, FALSE, 0, 0, 255, 108), 0)),
   Single(Std(Bm(24, 1, 1, FALSE, 0, 0, 255, 12), 0))}

IcoInputs ==
  HeaderInputs \cup OrderInputs \cup BoundsInputs \cup CutInputs \cup PixelInputs
    \cup DimInputs \cup PngInputs

BmpInputs ==
  UNION {{[api |-> "bmp", bm |-> Bm(bpp, w, h, td, cu, pat, a, 40), cut |-> cut] :
            w \in 1..MaxW, h \in 1..MaxH, td \in BOOLEAN, cu \in {0, 2},
            pat \in {0, 1, 2}, a \in Alphas(bpp), cut \in {0, 1}} : bpp \in Depths}

Inputs == IcoInputs \cup BmpInputs

Stream(in) == IF in.api = "ico" THEN IcoFile(in) ELSE BmpFile(in.bm, in.cut)

(***************************************************************************)
(* The two entry points, ico.Decode and bmp.Decode, step by step.          *)
(***************************************************************************)
None == [kind |-> "none"]
Nil == [type |-> "nil"]

Init ==
  /\ input \in Inputs
  /\ api = input.api
  /\ stream = Stream(input)
  /\ pc = "start"
  /\ hdr = None
  /\ rpos = 0
  /\ ds = << >>
  /\ buf = << >>
  /\ bufCap = 0
  /\ idx = 0
  /\ imgs = << >>
  /\ last = None
  /\ res = None

\* h, err := readHeader(r); if err != nil { return nil, err }
ReadHeader ==
  /\ pc = "start" /\ api = "ico"
  /\ hdr' = readHeader(stream)
  /\ rpos' = hdr'.pos
  /\ IF hdr'.kind = "err"
       THEN pc' = "done" /\ res' = ErrV(hdr'.err)
       ELSE pc' = "dirs" /\ res' = res
  /\ UNCHANGED <<api, input, stream, ds, buf, bufCap, idx, imgs, last>>

\* ds, err := readDirectoris(r, int(h.Count))
ReadDirectoris ==
  /\ pc = "dirs"
  /\ ds' = readDirectoris(stream, rpos, hdr.h.Count).ds
  /\ rpos' = readDirectoris(stream, rpos, hdr.h.Count).pos
  /\ pc' = "readall"
  /\ UNCHANGED <<api, input, stream, hdr, buf, bufCap, idx, imgs, last, res>>

\* buf, err := ioutil.ReadAll(r); imgs := make([]image.Image, len(ds)).
ReadAll ==
  /\ pc = "readall"
  /\ buf' = SubSeq(stream, rpos + 1, Len(stream))
  /\ bufCap' = readAllCap(Len(buf'))
  /\ imgs' = [k \in 1..Len(ds) |-> Nil]
  /\ idx' = 0
  /\ pc' = "loop"
  /\ UNCHANGED <<api, input, stream, hdr, rpos, ds, last, res>>

\* for i, v := range ds { ... }: one iteration
DecodeEntry ==
  /\ pc = "loop" /\ idx < Len(ds)
  /\ \E srcAll \in BOOLEAN :
       last' = decodeEntry(ds[idx + 1], Len(ds), buf, bufCap, srcAll)
  /\ IF last'.kind = "ok"
       THEN imgs' = storeImage(imgs, idx, last'.img) /\ idx' = idx + 1 /\ pc' = "loop"
            /\ res' = res
       ELSE /\ UNCHANGED <<imgs, idx>>
            /\ pc' = "done"
            /\ res' = IF last'.kind = "err" THEN ErrV(last'.err) ELSE PanicV(last'.why)
  /\ UNCHANGED <<api, input, stream, hdr, rpos, ds, buf, bufCap>>

\* return imgs, nil
Return ==
  /\ pc = "loop" /\ idx = Len(ds)
  /\ res' = [kind |-> "ok", imgs |-> imgs]
  /\ pc' = "done"
  /\ UNCHANGED <<api, input, stream, hdr, rpos, ds, buf, bufCap, idx, imgs, last>>

\* bmp.Decode: d, err := newDecoder(r)
BmpNewDecoder ==
  /\ pc = "start" /\ api = "bmp"
  /\ last' = newDecoder(stream)
  /\ IF last'.kind = "err"
       THEN pc' = "done" /\ res' = ErrV(last'.err)
       ELSE pc' = "rows" /\ res' = res
  /\ UNCHANGED <<api, input, stream, hdr, rpos, ds, buf, bufCap, idx, imgs>>

\* bmp.Decode: img, err := d.decode(r)
BmpDecodeRows ==
  /\ pc = "rows"
  /\ res' = decode(last.d, stream, last.pos)
  /\ pc' = "done"
  /\ UNCHANGED <<api, input, stream, hdr, rpos, ds, buf, bufCap, idx, imgs, last>>

Next ==
  \/ ReadHeader
  \/ ReadDirectoris
  \/ ReadAll
  \/ DecodeEntry
  \/ Return
  \/ BmpNewDecoder
  \/ BmpDecodeRows

Spec == Init /\ [][Next]_vars

(***************************************************************************)
(* Properties.  The recipe in input says what the stream was built to hold; *)
(* the properties compare what the decoders return with it.                *)
(***************************************************************************)
TruncatedData == {ErrEOF, ErrUnexpectedEOF}
InvalidContainerHeader == {ErrImageType, ErrCount}

Returned == pc = "done" /\ res.kind = "ok"

\* The four bytes of pixel (x, y) of an RGBA or NRGBA image.
Rgba(img, x, y) == SubSeq(img.Pix, y * img.Stride + 4 * x + 1, y * img.Stride + 4 * x + 4)

Alpha(img, x, y) == img.Pix[y * img.Stride + 4 * x + 4]

\* A container whose header is right and whose directory records give each
\* payload's true place and size.
InBounds(c) ==
  /\ c.marker = 1
  /\ c.count = Len(c.entries)
  /\ \A i \in 1..Len(c.entries) : c.entries[i].offDelta = 0 /\ c.entries[i].sizeDelta = 0

\* Entry i decoded on its own: a container that holds nothing but its payload.
Alone(c, i, srcAll) ==
  decodeEntry([ds[i] EXCEPT !.ImageOffset = headerSize + directorySize], 1,
              Payload(c.entries[i]), readAllCap(Len(Payload(c.entries[i]))), srcAll)

IsImageOf(img, r) == r.kind = "ok" /\ r.img = img

\* The composite a well-formed entry stands for: transparent where the mask
\* bit is 1, the stored colour with alpha 255 elsewhere.
IsExpectedComposite(img, e) ==
  /\ img.type = "RGBA" /\ img.W = e.bm.w /\ img.H = e.bm.h
  /\ \A y \in 0..(e.bm.h - 1) : \A x \in 0..(e.bm.w - 1) :
       Rgba(img, x, y) = IF MaskBit(e.mask, x, y) = 1 THEN << 0, 0, 0, 0 >>
                         ELSE PalRGB(PatIndex(e.bm, x, y)) \o << 255 >>

IsExpectedImage(img, e) ==
  IF e.kind = "png"
    THEN img = [type |-> "Gray", W |-> 1, H |-> 1, Stride |-> 1, Palette |-> << >>,
                Pix |-> << e.id >>]
  ELSE IsExpectedComposite(img, e)

\* C1: for a container of N >= 1 entries whose payloads lie in bounds and
\* decode, Decode returns N images and image i is the decoding of directory
\* entry i, wherever the payloads lie in the file; for the entries of Pool it
\* is the image the entry was built to hold.
C1_DirectoryOrder ==
  (api = "ico" /\ Returned /\ InBounds(input)) =>
    /\ Len(res.imgs) = Len(input.entries)
    /\ \A i \in 1..Len(input.entries) :
         /\ \E srcAll \in BOOLEAN : IsImageOf(res.imgs[i], Alone(input, i, srcAll))
         /\ input.entries[i] \in Pool => IsExpectedImage(res.imgs[i], input.entries[i])

\* Two different entries, the second one's payload first in the file.
C1_Witness ==
  /\ api = "ico" /\ Returned /\ InBounds(input)
  /\ Len(input.entries) = 2 /\ input.perm = << 2, 1 >>
  /\ input.entries[1] # input.entries[2]
  /\ input.entries[1].kind = "bmp"

\* C2 (as claimed): when the first entry's payload range ends beyond the
\* buffer that follows the directory table, Decode returns a TruncatedData
\* error value.
C2_TruncatedRange ==
  (api = "ico" /\ pc = "done" /\ hdr.kind = "ok" /\ Len(ds) >= 1
     /\ payloadOffset(ds[1], Len(ds)) >= 0 /\ ds[1].BytesInRes >= 0
     /\ payloadOffset(ds[1], Len(ds)) + ds[1].BytesInRes > Len(buf))
    => (res.kind = "err" /\ res.err \in TruncatedData)

\* A single in-bounds entry with an intact 40-byte header whose directory
\* dimensions agree with the header.
PlainEntry ==
  /\ api = "ico" /\ InBounds(input) /\ Len(input.entries) = 1
  /\ input.entries[1].kind = "bmp"
  /\ input.entries[1].bm.ihSize = 40
  /\ input.entries[1].padXor = 0
  /\ input.entries[1].dirW = input.entries[1].bm.w % 256
  /\ input.entries[1].dirH = input.entries[1].bm.h % 256

\* Every index the recipe stores has a palette entry, and a direct-colour
\* recipe carries no palette.
PlainPalette(bm) ==
  /\ bm.bpp <= 8 => \A y \in 0..(bm.h - 1) : \A x \in 0..(bm.w - 1) :
                      PatIndex(bm, x, y) < PaletteCount(bm)
  /\ bm.bpp > 8 => bm.cu = 0

\* The XOR image of the recipe is opaque.
OpaqueXor(bm) == PlainPalette(bm) /\ (bm.bpp = 32 => bm.alpha = 255)

\* C3 (as claimed): for an entry with an opaque XOR image, every pixel whose
\* AND bit is 1 has alpha 0 and every pixel whose AND bit is 0 has the XOR
\* colour with alpha 255, for every width.
C3_MaskCompositing ==
  (Returned /\ PlainEntry /\ input.entries[1].cut = 0 /\ OpaqueXor(input.entries[1].bm)) =>
    \A y \in 0..(input.entries[1].bm.h - 1) : \A x \in 0..(input.entries[1].bm.w - 1) :
      IF MaskBit(input.entries[1].mask, x, y) = 1
        THEN Alpha(res.imgs[1], x, y) = 0
        ELSE Rgba(res.imgs[1], x, y)
               = PalRGB(PatIndex(input.entries[1].bm, x, y)) \o << 255 >>

\* The colour bmp.Decode's image holds at (x, y), alpha as stored.
StoredColour(img, x, y) ==
  IF img.type = "Paletted" THEN img.Palette[img.Pix[y * img.Stride + x + 1] + 1]
  ELSE Rgba(img, x, y)

\* C4 (as claimed): for every depth, width and height with complete row
\* data the decoder returns an image whose pixel (x, y) is the colour stored
\* for column x of the row that holds y (bottom-up, or top-down for a
\* negative height), most significant bit / high nibble first.
C4_PixelRoundTrip ==
  (api = "bmp" /\ pc = "done" /\ input.cut = 0 /\ PlainPalette(input.bm))
    => /\ res.kind = "ok"
       /\ res.img.W = input.bm.w /\ res.img.H = input.bm.h
       /\ \A y \in 0..(input.bm.h - 1) : \A x \in 0..(input.bm.w - 1) :
            StoredColour(res.img, x, y)
              = PalRGB(PatIndex(input.bm, x, y))
                  \o << IF input.bm.bpp = 32 THEN input.bm.alpha ELSE 255 >>

\* C5: parsing the container header fails with InvalidContainerHeader, and
\* Decode returns that error, exactly when the type marker is not 1 or the
\* entry count is <= 0.
C5_HeaderCheck ==
  (api = "ico" /\ pc # "start") =>
    /\ hdr.kind = "err" <=> (input.marker # 1 \/ input.count <= 0)
    /\ hdr.kind = "err" =>
         (hdr.err \in InvalidContainerHeader /\ pc = "done" /\ res = ErrV(hdr.err))
    /\ hdr.kind = "ok" => (hdr.h.ImageType = 1 /\ hdr.h.Count = input.count)

\* The boundary: a right marker with a count of 0 is refused.
C5_Witness ==
  /\ api = "ico" /\ pc = "done" /\ input.marker = 1 /\ input.count = 0
  /\ res = ErrV(ErrCount)

\* A single entry whose directory record gives the payload's true place.
OneEntry ==
  /\ api = "ico" /\ input.marker = 1 /\ input.count = 1 /\ Len(input.entries) = 1
  /\ input.entries[1].kind = "bmp" /\ input.entries[1].offDelta = 0

\* C6 (as claimed): an entry whose width (height) byte is 0 decodes to an
\* image 256 pixels wide (high).
C6_ZeroIs256 ==
  (OneEntry /\ last.kind = "ok") =>
    /\ input.entries[1].dirW = 0 => last.img.W = 256
    /\ input.entries[1].dirH = 0 => last.img.H = 256

\* C6 (amended): a width (height) byte of 0 counts as 256 in the row stride
\* and in the XOR block size, hence in where the XOR / AND split falls; the
\* decoded image takes its width and height from the info header (width and
\* height / 2), whatever the directory says.
C6_ZeroIs256InSplit ==
  (OneEntry /\ last.kind # "none" /\ last.nbr.kind = "ok") =>
    /\ last.nbr.xorSize
         = 4 * PaletteCount(input.entries[1].bm)
             + StoredStride(IF input.entries[1].dirW = 0 THEN 256 ELSE input.entries[1].dirW,
                            input.entries[1].bm.bpp)
                 * (IF input.entries[1].dirH = 0 THEN 256 ELSE input.entries[1].dirH)
    /\ Len(last.nbr.xor) = bmpHeaderSize + 40 + last.nbr.xorSize
    /\ last.kind = "ok" =>
         (last.img.W = input.entries[1].bm.w /\ last.img.H = input.entries[1].bm.h)

\* A width byte of 0 over an info header that says 8: the split is computed
\* for 256 and the image is 8 wide.
C6_Witness ==
  /\ OneEntry /\ pc = "done" /\ last.kind = "ok" /\ res.kind = "ok"
  /\ input.entries[1].dirW = 0 /\ last.img.W = 8
  /\ last.nbr.xorSize = 8 + 32

\* The iteration just run took the bitmap path and produced a composite.
Composited == api = "ico" /\ last.kind = "ok" /\ last.xorRes.kind = "ok"

\* C7 (as claimed): every pixel of the composite of a non-PNG entry has
\* alpha 0 or 255, at every XOR depth.
C7_AlphaBinary ==
  Composited =>
    \A y \in 0..(last.img.H - 1) : \A x \in 0..(last.img.W - 1) :
      Alpha(last.img, x, y) \in {0, 255}

\* The alpha byte the XOR stream stores for pixel (x, y) of a 32-bpp image.
XorStreamAlpha(nbr, img, x, y) ==
  nbr.xor[bmpHeaderSize + 40
            + 4 * img.W * (IF nbr.ih.Height < 0 THEN y ELSE img.H - 1 - y) + 4 * x + 4]

\* C7 (amended): at XOR depths 1, 4, 8 and 24 every pixel of the composite
\* has alpha 0 or 255; at depth 32 a pixel's alpha is 0 or the alpha byte
\* stored for it.
C7_AlphaBinaryOrStored ==
  Composited =>
    \A y \in 0..(last.img.H - 1) : \A x \in 0..(last.img.W - 1) :
      IF last.xorRes.img.type = "NRGBA"
        THEN Alpha(last.img, x, y) \in {0, XorStreamAlpha(last.nbr, last.img, x, y)}
        ELSE Alpha(last.img, x, y) \in {0, 255}

\* A 32-bpp entry storing alpha 128 under an opaque mask pixel.
C7_Witness ==
  /\ Composited /\ pc = "done" /\ res.kind = "ok"
  /\ last.xorRes.img.type = "NRGBA"
  /\ Alpha(last.img, 0, 0) = 128

\* C8 (as claimed): an entry whose payload stops short of the end of its
\* XOR block or of its AND rows makes Decode return a TruncatedData error.
C8_ShortPayload ==
  (PlainEntry /\ pc = "done" /\ input.entries[1].cut >= 1
     /\ input.entries[1].cut
          <= 4 * PaletteCount(input.entries[1].bm)
               + StoredStride(input.entries[1].bm.w, input.entries[1].bm.bpp)
                   * input.entries[1].bm.h
               + StoredStride(input.entries[1].bm.w, 1) * input.entries[1].bm.h)
    => (res.kind = "err" /\ res.err \in TruncatedData)

\* C9 (as claimed): what the decoder consumes of the XOR stream after the
\* file header and the info header is the synthesizer's xorBlockSize, for
\* any colours-used value.
C9_XorBlockConsumed ==
  (PlainEntry /\ last.kind # "none" /\ last.xorRes.kind = "ok") =>
    last.xorRes.pos - bmpHeaderSize - 40 = last.nbr.xorSize

\* C10 (as claimed): every palette index of a paletted image bmp.Decode
\* returns has an entry in the image's palette.
C10_IndexInPalette ==
  (api = "bmp" /\ pc = "done" /\ res.kind = "ok" /\ res.img.type = "Paletted") =>
    \A k \in 1..Len(res.img.Pix) : res.img.Pix[k] < Len(res.img.Palette)

====
